---- MODULE Spec2Model ----
(***************************************************************************)
(* Model of server/main-api/src/calendar/connectum.rs: APIRequestor, the   *)
(* per-room calendar synchronisation of NavigaTUM.  Each session is one    *)
(* APIRequestor (its own oauth_token cache) running refresh(id): capture   *)
(* sync_start, obtain a bearer token, GET the room's calendar, tag the     *)
(* events, and replace the room's rows in one Postgres transaction.        *)
(* Every await of the source is one action; the database shows other       *)
(* sessions only what has been committed.                                  *)
(***************************************************************************)
EXTENDS Integers, Sequences, FiniteSets, TLC

\* ---------------------------------------------------------------- bounds
MaxTime == 1        \* the clock runs over 0..MaxTime (seconds)
MaxTokens == 2      \* tokens the identity provider issues in one run
MaxBatch == 3       \* events the upstream calendar knows (longest payload)

\* Duration::from_secs(10), the safety margin of try_unwrap_or_refresh_token
Margin == 10

Sessions == {"s1", "s2"}
Rooms == {"r1", "r2"}

\* The environment variables fetch_new_oauth_token reads.
Credentials == {"CONNECTUM_OAUTH_CLIENT_ID", "CONNECTUM_OAUTH_CLIENT_SECRET"}

\* The statuses the calendar endpoint answers with, and StatusCode::is_success.
Statuses == {200, 404, 500}
IsSuccess(status) == status \in 200..299

\* Option<T> as a sequence of length at most one
None == <<>>
Some(x) == <<x>>
IsSome(o) == o # None
Unwrap(o) == o[1]

Time == 0..MaxTime
\* expires_in of a token response: absent, or a number of seconds around the margin
Lifetimes == {None} \cup {Some(Margin + d) : d \in 0..(MaxTime + 1)}
\* a lifetime that stays above the margin for the whole run
LongLife == Some(Margin + MaxTime + 1)

VARIABLES
  now,          \* the clock (Utc::now)
  issued,       \* tokens issued so far by the identity provider (names the secrets)
  calendar,     \* committed rows of table calendar
  en, de,       \* committed last_calendar_scrape_at of tables en and de, per key
  oauth_token,  \* self.oauth_token of each APIRequestor
  pc,           \* where each session's refresh stands
  id,           \* refresh's argument
  sync_start,   \* refresh's let sync_start
  bearer,       \* the String try_unwrap_or_refresh_token returned
  events,       \* the tagged events handed to store
  tx,           \* the session's sqlx transaction
  res,          \* what the last refresh returned
  prev,         \* the arguments of the last store that committed
  env,          \* the environment variables of the process that are set
  http          \* the status of the response the calendar GET received

vars == <<now, issued, calendar, en, de, oauth_token, pc, id, sync_start,
          bearer, events, tx, res, prev, env, http>>
db == <<calendar, en, de>>
locals(s) == <<pc[s], id[s], sync_start[s], bearer[s], events[s], tx[s], res[s]>>

\* ------------------------------------------------------------ the upstream
\* The events the remote API knows.  Event k carries the room code the server
\* echoes (not always the requested one) and whether Event::store accepts it.
Master(k) ==
  [uid |-> k,
   room_code |-> IF k % 3 = 0 THEN "r2" ELSE "r1",
   valid |-> k % 2 = 1]

\* A response body: a contiguous run of the upstream's events, in order.
Payloads ==
  {<<>>} \cup {[k \in 1..(j - i + 1) |-> Master(i + k - 1)] : i \in 1..MaxBatch, j \in 1..MaxBatch}

\* ------------------------------------------------------------ token cache
\* token.expires_in(): the expires_in field of the token response as issued.
\* It is not reduced by the time elapsed since the exchange.
ExpiresIn(tok) == tok.expires_in

\* A faulty variant of NeedsRefresh: the comparison is turned around.
NeedsRefresh_Flipped(cache) ==
  IF cache = None THEN TRUE
  ELSE LET e == ExpiresIn(Unwrap(cache)) IN ~(IF IsSome(e) THEN Unwrap(e) < Margin ELSE FALSE)

\* !expires_in.is_some_and(|e| e > Duration::from_secs(10))
NeedsRefresh(cache) ==
  IF cache = None THEN TRUE
  ELSE LET e == ExpiresIn(Unwrap(cache)) IN ~(IF IsSome(e) THEN Unwrap(e) > Margin ELSE FALSE)

\* What is left of a token's lifetime at the current instant (None: unknown).
Remaining(tok) ==
  IF IsSome(tok.expires_in) THEN Some(tok.issued_at + Unwrap(tok.expires_in) - now) ELSE None

\* ---------------------------------------------------------------- events
\* A faulty variant of Tag: the room code of the payload is kept.
Tag_Keep(e, room) == e

\* refresh's map closure: e.room_code = id.into()
Tag(e, room) == [e EXCEPT !.room_code = room]

TagAll(body, room) == [k \in 1..Len(body) |-> Tag(body[k], room)]

\* The row Event::store inserts for an event.
Row(e) == [uid |-> e.uid, room_code |-> e.room_code]

\* What a reader's query for a room returns from a table state.
RoomRows(cal, room) == {r \in cal : r.room_code = room}

\* A faulty variant of DeleteEvents: the statement matches no row.
DeleteEvents_NoMatch(cal, room) == {}

\* A faulty variant of DeleteEvents: the statement has no WHERE clause.
DeleteEvents_AllRooms(cal, room) == cal

\* DELETE FROM calendar WHERE room_code = $1: the rows the statement removes.
DeleteEvents(cal, room) == {r \in cal : r.room_code = room}

\* The result of insert k of a transaction: a well-formed event is stored; a
\* malformed one is refused; once a statement has failed on the server the
\* Postgres transaction is aborted and refuses every later statement.
InsertOk(t, evs, k) == evs[k].valid /\ (t.failedAt = 0 \/ k < t.failedAt)

\* The rows the transaction has inserted so far.
InsertedRows(t, evs) == {Row(evs[k]) : k \in {j \in 1..t.n : InsertOk(t, evs, j)}}

\* A faulty variant of CommitCalendar: the delete is applied after the inserts.
CommitCalendar_DeleteLast(cal, t, evs) == (cal \cup InsertedRows(t, evs)) \ t.deleted

\* What commit makes visible of table calendar: the delete, then the inserts.
CommitCalendar(cal, t, evs) == (cal \ t.deleted) \cup InsertedRows(t, evs)

\* UPDATE <table> SET last_calendar_scrape_at = $1 WHERE key = $2, committed
\* when the transaction executed the statement on that table.
ScrapeAt(table, name, t, room, at) ==
  IF name \in t.fresh THEN [table EXCEPT ![room] = Some(at)] ELSE table

\* No transaction; and the fields of one: the rows its DELETE removed, the
\* inserts it has sent, the insert that aborted it (0: none), the tables whose
\* UPDATE it executed, the step that made store give up.
NoTx == [state |-> "none", deleted |-> {}, n |-> 0, failedAt |-> 0, fresh |-> {},
         cause |-> "none"]

\* ------------------------------------------------------------------ Init
Init ==
  /\ now = 0
  /\ issued = 0
  /\ calendar = {}
  /\ en = [r \in Rooms |-> None]
  /\ de = [r \in Rooms |-> None]
  /\ oauth_token = [s \in Sessions |-> None]
  /\ pc = [s \in Sessions |-> "idle"]
  /\ id = [s \in Sessions |-> "r1"]
  /\ sync_start = [s \in Sessions |-> 0]
  /\ bearer = [s \in Sessions |-> 0]
  /\ events = [s \in Sessions |-> <<>>]
  /\ tx = [s \in Sessions |-> NoTx]
  /\ res = [s \in Sessions |-> "none"]
  /\ prev = None
  /\ env = Credentials
  /\ http = [s \in Sessions |-> 0]

\* --------------------------------------------------------------- actions
Tick ==
  /\ now < MaxTime
  /\ now' = now + 1
  /\ UNCHANGED <<env, issued, calendar, en, de, oauth_token, pc, id,
                 sync_start, bearer, events, tx, res, prev, http>>

\* The variables set in the process environment change (a deployment with
\* other settings, std::env::set_var).
Setenv(e) ==
  /\ e # env
  /\ env' = e
  /\ UNCHANGED <<now, issued, calendar, en, de, oauth_token, pc, id,
                 sync_start, bearer, events, tx, res, prev, http>>

\* refresh(&mut self, id): let sync_start = Utc::now()
Refresh(s, room) ==
  /\ pc[s] \in {"idle", "done"}
  /\ pc' = [pc EXCEPT ![s] = "token"]
  /\ id' = [id EXCEPT ![s] = room]
  /\ sync_start' = [sync_start EXCEPT ![s] = now]
  /\ bearer' = [bearer EXCEPT ![s] = 0]
  /\ events' = [events EXCEPT ![s] = <<>>]
  /\ tx' = [tx EXCEPT ![s] = NoTx]
  /\ res' = [res EXCEPT ![s] = "none"]
  /\ http' = [http EXCEPT ![s] = 0]
  /\ UNCHANGED <<now, env, issued, calendar, en, de, oauth_token, prev>>

\* A refresh returns Ok(()) or the error of the failing step; the events and
\* the transaction go out of scope.
Return(s, r) ==
  /\ pc' = [pc EXCEPT ![s] = "done"]
  /\ res' = [res EXCEPT ![s] = r]
  /\ events' = [events EXCEPT ![s] = <<>>]
  /\ tx' = [tx EXCEPT ![s] = NoTx]
  /\ http' = [http EXCEPT ![s] = 0]

\* try_unwrap_or_refresh_token, Some(token) with expires_in > 10 s: reuse
ReuseToken(s) ==
  /\ pc[s] = "token"
  /\ ~NeedsRefresh(oauth_token[s])
  /\ bearer' = [bearer EXCEPT ![s] = Unwrap(oauth_token[s]).secret]
  /\ pc' = [pc EXCEPT ![s] = "get"]
  /\ UNCHANGED <<now, env, issued, calendar, en, de, oauth_token, id,
                 sync_start, events, tx, res, prev, http>>

\* self.oauth_token = Some(Self::fetch_new_oauth_token().await?), exchange granted
ExchangeOk(s, l) ==
  /\ pc[s] = "token"
  /\ NeedsRefresh(oauth_token[s])
  /\ env = Credentials
  /\ issued < MaxTokens
  /\ oauth_token' = [oauth_token EXCEPT ![s] =
         Some([secret |-> issued + 1, expires_in |-> l, issued_at |-> now])]
  /\ issued' = issued + 1
  /\ bearer' = [bearer EXCEPT ![s] = issued + 1]
  /\ pc' = [pc EXCEPT ![s] = "get"]
  /\ UNCHANGED <<now, env, calendar, en, de, id, sync_start, events, tx, res,
                 prev, http>>

\* A faulty variant of ConfigErr: a missing variable reads as the empty
\* string, the exchange is sent and the identity provider refuses it.
ConfigErr_SendsAnyway(s) ==
  /\ pc[s] = "token"
  /\ NeedsRefresh(oauth_token[s])
  /\ env # Credentials
  /\ Return(s, "auth")
  /\ UNCHANGED <<now, env, issued, calendar, en, de, oauth_token, id,
                 sync_start, bearer, prev>>

\* fetch_new_oauth_token: env::var(..).map_err(..)? on a variable that is not
\* set returns the io::Error before the client is built
ConfigErr(s) ==
  /\ pc[s] = "token"
  /\ NeedsRefresh(oauth_token[s])
  /\ env # Credentials
  /\ Return(s, "config")
  /\ UNCHANGED <<now, env, issued, calendar, en, de, oauth_token, id,
                 sync_start, bearer, prev>>

\* A faulty variant of ExchangeErr: the cache is emptied before the exchange
\* and stays empty when it fails.
ExchangeErr_DropsCache(s) ==
  /\ pc[s] = "token"
  /\ NeedsRefresh(oauth_token[s])
  /\ env = Credentials
  /\ oauth_token' = [oauth_token EXCEPT ![s] = None]
  /\ Return(s, "auth")
  /\ UNCHANGED <<now, env, issued, calendar, en, de, id, sync_start, bearer, prev>>

\* fetch_new_oauth_token().await? fails: the ? returns before the assignment
ExchangeErr(s) ==
  /\ pc[s] = "token"
  /\ NeedsRefresh(oauth_token[s])
  /\ env = Credentials
  /\ Return(s, "auth")
  /\ UNCHANGED <<now, env, issued, calendar, en, de, oauth_token, id,
                 sync_start, bearer, prev>>

\* client.get(url).bearer_auth(token).send().await?.json().await? and the
\* tagging: a response arrived and its body is an array of events.  The status
\* of the response is not looked at.
GetOk(s, status, body) ==
  /\ pc[s] = "get"
  /\ http' = [http EXCEPT ![s] = status]
  /\ events' = [events EXCEPT ![s] = TagAll(body, id[s])]
  /\ pc' = [pc EXCEPT ![s] = "begin"]
  /\ UNCHANGED <<now, env, issued, calendar, en, de, oauth_token, id,
                 sync_start, bearer, tx, res, prev>>

\* A faulty variant of GetErr: the failure is logged and refresh goes on with
\* no events (unwrap_or_default).
GetErr_Default(s) ==
  /\ pc[s] = "get"
  /\ events' = [events EXCEPT ![s] = <<>>]
  /\ pc' = [pc EXCEPT ![s] = "begin"]
  /\ UNCHANGED <<now, env, issued, calendar, en, de, oauth_token, id,
                 sync_start, bearer, tx, res, prev, http>>

\* A faulty variant of GetErr: after a failed fetch refresh asks for a token
\* again and repeats the GET.
GetErr_Retry(s) ==
  /\ pc[s] = "get"
  /\ pc' = [pc EXCEPT ![s] = "token"]
  /\ UNCHANGED <<now, env, issued, calendar, en, de, oauth_token, id,
                 sync_start, bearer, events, tx, res, prev, http>>

\* send() fails (no response), or json() fails (the body is no array of events)
GetErr(s) ==
  /\ pc[s] = "get"
  /\ Return(s, "fetch")
  /\ UNCHANGED <<now, env, issued, calendar, en, de, oauth_token, id,
                 sync_start, bearer, prev>>

\* store: let mut tx = self.pool.begin().await?
BeginOk(s) ==
  /\ pc[s] = "begin"
  /\ tx' = [tx EXCEPT ![s] = [NoTx EXCEPT !.state = "open"]]
  /\ pc' = [pc EXCEPT ![s] = "delete"]
  /\ UNCHANGED <<now, env, issued, calendar, en, de, oauth_token, id,
                 sync_start, bearer, events, res, prev, http>>

BeginErr(s) ==
  /\ pc[s] = "begin"
  /\ Return(s, "begin")
  /\ UNCHANGED <<now, env, issued, calendar, en, de, oauth_token, id,
                 sync_start, bearer, prev>>

\* A faulty variant of DeleteOk: the DELETE runs on the pool, outside the
\* transaction, and is committed at once.
DeleteOk_Autocommit(s) ==
  /\ pc[s] = "delete"
  /\ calendar' = calendar \ DeleteEvents(calendar, id[s])
  /\ pc' = [pc EXCEPT ![s] = "insert"]
  /\ UNCHANGED <<now, env, issued, en, de, oauth_token, id, sync_start,
                 bearer, events, tx, res, prev, http>>

\* self.delete_events(&mut tx, id): the rows of the room the statement sees
DeleteOk(s) ==
  /\ pc[s] = "delete"
  /\ tx' = [tx EXCEPT ![s].deleted = DeleteEvents(calendar, id[s])]
  /\ pc' = [pc EXCEPT ![s] = "insert"]
  /\ UNCHANGED <<now, env, issued, calendar, en, de, oauth_token, id,
                 sync_start, bearer, events, res, prev, http>>

\* A faulty variant of DeleteErr: the error is logged and store goes on.
DeleteErr_Ignored(s) ==
  /\ pc[s] = "delete"
  /\ tx' = [tx EXCEPT ![s].cause = "delete"]
  /\ pc' = [pc EXCEPT ![s] = "insert"]
  /\ UNCHANGED <<now, env, issued, calendar, en, de, oauth_token, id,
                 sync_start, bearer, events, res, prev, http>>

\* if let Err(e) = self.delete_events(..): rollback, return Err
DeleteErr(s) ==
  /\ pc[s] = "delete"
  /\ tx' = [tx EXCEPT ![s].cause = "delete"]
  /\ pc' = [pc EXCEPT ![s] = "rollback"]
  /\ UNCHANGED <<now, env, issued, calendar, en, de, oauth_token, id,
                 sync_start, bearer, events, res, prev, http>>

\* for (i, event) in events.iter().enumerate(): event.store(&mut tx); the
\* statement is accepted, or refused with the transaction still usable
InsertRow(s) ==
  /\ pc[s] = "insert"
  /\ tx[s].n < Len(events[s])
  /\ tx' = [tx EXCEPT ![s].n = @ + 1]
  /\ UNCHANGED <<now, env, issued, calendar, en, de, oauth_token, pc, id,
                 sync_start, bearer, events, res, prev, http>>

\* event.store(&mut tx) fails on the server (a constraint, a lost connection):
\* the warning is logged and the loop goes on, with the transaction aborted
InsertAbort(s) ==
  /\ pc[s] = "insert"
  /\ tx[s].n < Len(events[s])
  /\ tx[s].failedAt = 0
  /\ tx' = [tx EXCEPT ![s].n = @ + 1, ![s].failedAt = tx[s].n + 1]
  /\ UNCHANGED <<now, env, issued, calendar, en, de, oauth_token, pc, id,
                 sync_start, bearer, events, res, prev, http>>

\* the loop is over
InsertDone(s) ==
  /\ pc[s] = "insert"
  /\ tx[s].n = Len(events[s])
  /\ pc' = [pc EXCEPT ![s] = "update_en"]
  /\ UNCHANGED <<now, env, issued, calendar, en, de, oauth_token, id,
                 sync_start, bearer, events, tx, res, prev, http>>

\* UPDATE en SET last_calendar_scrape_at = $1 WHERE key = $2
UpdateEnOk(s) ==
  /\ pc[s] = "update_en"
  /\ tx[s].failedAt = 0
  /\ tx' = [tx EXCEPT ![s].fresh = @ \cup {"en"}]
  /\ pc' = [pc EXCEPT ![s] = "update_de"]
  /\ UNCHANGED <<now, env, issued, calendar, en, de, oauth_token, id,
                 sync_start, bearer, events, res, prev, http>>

\* .await? of the first UPDATE: the second is not sent; store rolls back
UpdateEnErr(s) ==
  /\ pc[s] = "update_en"
  /\ tx' = [tx EXCEPT ![s].cause = "update"]
  /\ pc' = [pc EXCEPT ![s] = "rollback"]
  /\ UNCHANGED <<now, env, issued, calendar, en, de, oauth_token, id,
                 sync_start, bearer, events, res, prev, http>>

\* UPDATE de SET last_calendar_scrape_at = $1 WHERE key = $2
UpdateDeOk(s) ==
  /\ pc[s] = "update_de"
  /\ tx' = [tx EXCEPT ![s].fresh = @ \cup {"de"}]
  /\ pc' = [pc EXCEPT ![s] = "commit"]
  /\ UNCHANGED <<now, env, issued, calendar, en, de, oauth_token, id,
                 sync_start, bearer, events, res, prev, http>>

\* A faulty variant of UpdateDeErr: the error is logged and store commits.
UpdateDeErr_Ignored(s) ==
  /\ pc[s] = "update_de"
  /\ pc' = [pc EXCEPT ![s] = "commit"]
  /\ UNCHANGED <<now, env, issued, calendar, en, de, oauth_token, id,
                 sync_start, bearer, events, tx, res, prev, http>>

\* .await of the second UPDATE fails: store rolls back
UpdateDeErr(s) ==
  /\ pc[s] = "update_de"
  /\ tx' = [tx EXCEPT ![s].cause = "update"]
  /\ pc' = [pc EXCEPT ![s] = "rollback"]
  /\ UNCHANGED <<now, env, issued, calendar, en, de, oauth_token, id,
                 sync_start, bearer, events, res, prev, http>>

\* A faulty variant of CommitOk: the timestamp written is the instant at which
\* store runs, not the one refresh captured.
CommitOk_CompletionTime(s) ==
  /\ pc[s] = "commit"
  /\ calendar' = CommitCalendar(calendar, tx[s], events[s])
  /\ en' = ScrapeAt(en, "en", tx[s], id[s], now)
  /\ de' = ScrapeAt(de, "de", tx[s], id[s], now)
  /\ prev' = Some([room |-> id[s], events |-> events[s], at |-> sync_start[s]])
  /\ Return(s, "Ok")
  /\ UNCHANGED <<now, env, issued, oauth_token, id, sync_start, bearer>>

\* tx.commit().await?; Ok(())
CommitOk(s) ==
  /\ pc[s] = "commit"
  /\ calendar' = CommitCalendar(calendar, tx[s], events[s])
  /\ en' = ScrapeAt(en, "en", tx[s], id[s], sync_start[s])
  /\ de' = ScrapeAt(de, "de", tx[s], id[s], sync_start[s])
  /\ prev' = Some([room |-> id[s], events |-> events[s], at |-> sync_start[s]])
  /\ Return(s, "Ok")
  /\ UNCHANGED <<now, env, issued, oauth_token, id, sync_start, bearer>>

\* tx.commit().await? fails: nothing of the transaction is applied
CommitErr(s) ==
  /\ pc[s] = "commit"
  /\ Return(s, "commit")
  /\ UNCHANGED <<now, env, issued, calendar, en, de, oauth_token, id,
                 sync_start, bearer, prev>>

\* A faulty variant of RollbackOk: the error path calls tx.commit().
RollbackOk_Commits(s) ==
  /\ pc[s] = "rollback"
  /\ calendar' = CommitCalendar(calendar, tx[s], events[s])
  /\ en' = ScrapeAt(en, "en", tx[s], id[s], sync_start[s])
  /\ de' = ScrapeAt(de, "de", tx[s], id[s], sync_start[s])
  /\ Return(s, tx[s].cause)
  /\ UNCHANGED <<now, env, issued, oauth_token, id, sync_start, bearer, prev>>

\* tx.rollback().await?; return Err(e.into())
RollbackOk(s) ==
  /\ pc[s] = "rollback"
  /\ Return(s, tx[s].cause)
  /\ UNCHANGED <<now, env, issued, calendar, en, de, oauth_token, id,
                 sync_start, bearer, prev>>

\* tx.rollback().await? fails: its error is returned, the dropped transaction
\* is discarded by the server
RollbackErr(s) ==
  /\ pc[s] = "rollback"
  /\ Return(s, "rollback")
  /\ UNCHANGED <<now, env, issued, calendar, en, de, oauth_token, id,
                 sync_start, bearer, prev>>

\* One APIRequestor: refresh takes &mut self, so its calls follow one another.
Solo == {"s1"}

Next ==
  \/ Tick
  \/ \E s \in Solo, room \in Rooms : Refresh(s, room)
  \/ \E s \in Solo : ReuseToken(s)
  \/ \E s \in Solo : ExchangeOk(s, LongLife)
  \/ \E s \in Solo : ExchangeErr(s)
  \/ \E s \in Solo, body \in Payloads : GetOk(s, 200, body)
  \/ \E s \in Solo : GetErr(s)
  \/ \E s \in Solo : BeginOk(s)
  \/ \E s \in Solo : BeginErr(s)
  \/ \E s \in Solo : DeleteOk(s)
  \/ \E s \in Solo : DeleteErr(s)
  \/ \E s \in Solo : InsertRow(s)
  \/ \E s \in Solo : InsertAbort(s)
  \/ \E s \in Solo : InsertDone(s)
  \/ \E s \in Solo : UpdateEnOk(s)
  \/ \E s \in Solo : UpdateEnErr(s)
  \/ \E s \in Solo : UpdateDeOk(s)
  \/ \E s \in Solo : UpdateDeErr(s)
  \/ \E s \in Solo : CommitOk(s)
  \/ \E s \in Solo : CommitErr(s)
  \/ \E s \in Solo : RollbackOk(s)
  \/ \E s \in Solo : RollbackErr(s)

Spec == Init /\ [][Next]_vars

\* Several APIRequestors on one pool, each in its own transaction.  The upstream
\* answers with its first event or with its first three; every token is long-lived.
ConcBodies == {[k \in 1..n |-> Master(k)] : n \in {1, 3}}

NextConc ==
  \/ \E s \in Sessions, room \in Rooms : Refresh(s, room)
  \/ \E s \in Sessions : ReuseToken(s)
  \/ \E s \in Sessions : ExchangeOk(s, LongLife)
  \/ \E s \in Sessions : ExchangeErr(s)
  \/ \E s \in Sessions, body \in ConcBodies : GetOk(s, 200, body)
  \/ \E s \in Sessions : GetErr(s)
  \/ \E s \in Sessions : BeginOk(s)
  \/ \E s \in Sessions : BeginErr(s)
  \/ \E s \in Sessions : DeleteOk(s)
  \/ \E s \in Sessions : DeleteErr(s)
  \/ \E s \in Sessions : InsertRow(s)
  \/ \E s \in Sessions : InsertAbort(s)
  \/ \E s \in Sessions : InsertDone(s)
  \/ \E s \in Sessions : UpdateEnOk(s)
  \/ \E s \in Sessions : UpdateEnErr(s)
  \/ \E s \in Sessions : UpdateDeOk(s)
  \/ \E s \in Sessions : UpdateDeErr(s)
  \/ \E s \in Sessions : CommitOk(s)
  \/ \E s \in Sessions : CommitErr(s)
  \/ \E s \in Sessions : RollbackOk(s)
  \/ \E s \in Sessions : RollbackErr(s)

SpecConc == Init /\ [][NextConc]_vars

\* The token cache of one APIRequestor against an identity provider that issues
\* every lifetime, in a process whose credentials may be set or not, over
\* refreshes whose calendar is empty and whose database statements succeed.
NextAuth ==
  \/ Tick
  \/ \E room \in Rooms : Refresh("s1", room)
  \/ ReuseToken("s1")
  \/ \E l \in Lifetimes : ExchangeOk("s1", l)
  \/ ExchangeErr("s1")
  \/ \E e \in SUBSET Credentials : Setenv(e)
  \/ ConfigErr("s1")
  \/ GetOk("s1", 200, <<>>)
  \/ GetErr("s1")
  \/ BeginOk("s1")
  \/ DeleteOk("s1")
  \/ InsertDone("s1")
  \/ UpdateEnOk("s1")
  \/ UpdateDeOk("s1")
  \/ CommitOk("s1")

SpecAuth == Init /\ [][NextAuth]_vars

\* One APIRequestor against a calendar endpoint that answers with every status
\* and every body, or not at all; the database statements succeed.
NextFetch ==
  \/ \E room \in Rooms : Refresh("s1", room)
  \/ ReuseToken("s1")
  \/ ExchangeOk("s1", LongLife)
  \/ \E status \in Statuses, body \in Payloads : GetOk("s1", status, body)
  \/ GetErr("s1")
  \/ BeginOk("s1")
  \/ DeleteOk("s1")
  \/ InsertRow("s1")
  \/ InsertDone("s1")
  \/ UpdateEnOk("s1")
  \/ UpdateDeOk("s1")
  \/ CommitOk("s1")

SpecFetch == Init /\ [][NextFetch]_vars

\* The steps of store: each is an await on the pool or the transaction, which
\* the database answers or the connection fails.
StoreStep(s) ==
  \/ BeginOk(s) \/ BeginErr(s)
  \/ DeleteOk(s) \/ DeleteErr(s)
  \/ InsertRow(s) \/ InsertAbort(s) \/ InsertDone(s)
  \/ UpdateEnOk(s) \/ UpdateEnErr(s)
  \/ UpdateDeOk(s) \/ UpdateDeErr(s)
  \/ CommitOk(s) \/ CommitErr(s)
  \/ RollbackOk(s) \/ RollbackErr(s)

\* One APIRequestor whose store meets every database fault; the runtime keeps
\* polling the future of store and every statement sent is answered, so a
\* store that can take a step eventually takes one.
NextLive ==
  \/ \E room \in Rooms : Refresh("s1", room)
  \/ ReuseToken("s1")
  \/ ExchangeOk("s1", LongLife)
  \/ \E body \in Payloads : GetOk("s1", 200, body)
  \/ StoreStep("s1")

SpecLive == Init /\ [][NextLive]_vars /\ WF_vars(StoreStep("s1"))

\* ------------------------------------------------------------ properties
\* The arguments store was called with.
StoreArgs(s) == [room |-> id[s], events |-> events[s], at |-> sync_start[s]]

\* The step in which session s commits and store returns Ok(()).
Commits(s) == pc[s] = "commit" /\ res'[s] = "Ok"

\* The committed store as a reader of one room sees it.
RoomView(cal, e, d, room) == <<RoomRows(cal, room), e[room], d[room]>>

\* The cached token has a known lifetime of which more than the margin is left.
FreshEnough(cache) ==
  IF cache = None THEN FALSE
  ELSE LET left == Remaining(Unwrap(cache)) IN
       IF IsSome(left) THEN Unwrap(left) > Margin ELSE FALSE

\* C1: when store returns Ok, the committed rows of its room are exactly the
\* rows of the events whose insert succeeded (nothing of the previous calendar
\* is left, no stored row is missing), and the room's last_calendar_scrape_at
\* in en and in de is the timestamp store was called with.
C1_AtomicReplace ==
  [][\A s \in Sessions :
       Commits(s) =>
         /\ RoomRows(calendar', id[s]) = InsertedRows(tx[s], events[s])
         /\ en'[id[s]] = Some(sync_start[s])
         /\ de'[id[s]] = Some(sync_start[s])]_vars

\* A store of three events, one of them refused, has committed over an earlier
\* calendar: the room shows the two others and the call's timestamp.
C1_Witness ==
  /\ pc["s1"] = "done" /\ res["s1"] = "Ok" /\ IsSome(prev)
  /\ LET a == Unwrap(prev) IN
       /\ Len(a.events) = 3
       /\ \E k \in 1..3 : ~a.events[k].valid
       /\ RoomRows(calendar, a.room) = {Row(a.events[k]) : k \in {j \in 1..3 : a.events[j].valid}}
       /\ a.at = MaxTime
       /\ en[a.room] = Some(a.at) /\ de[a.room] = Some(a.at)

\* C2: a failed insert costs only its own row: every other event of the batch
\* whose own insert is accepted is stored, before and after the failed one, and
\* after the loop the freshness update can still be executed, so that store
\* commits and returns Ok.
C2_PartialFailureIsolation ==
  \A s \in Sessions :
    /\ \A j \in 1..tx[s].n :
         (events[s][j].valid /\ j # tx[s].failedAt) => InsertOk(tx[s], events[s], j)
    /\ pc[s] = "update_en" => ENABLED UpdateEnOk(s)

C4_DeleteFailureRollsBack ==
  [][\A s \in Sessions :
       /\ (pc[s] = "delete" /\ pc'[s] \notin {"delete", "insert"}) =>
            /\ pc'[s] = "rollback" /\ tx'[s].cause = "delete"
            /\ db' = db
       /\ (pc[s] = "delete" /\ tx'[s].cause = "delete") => pc'[s] = "rollback"
       /\ (tx[s].cause = "delete" /\ pc'[s] # pc[s]) =>
            /\ pc[s] = "rollback"
            /\ pc'[s] = "done" /\ res'[s] \in {"delete", "rollback"}
            /\ tx[s].n = 0 /\ tx[s].fresh = {}
            /\ db' = db]_vars

\* store has returned the error of a failed DELETE and the room still shows the
\* calendar and the timestamps of the earlier commit.
C4_Witness ==
  /\ pc["s1"] = "done" /\ res["s1"] = "delete"
  /\ IsSome(prev) /\ Unwrap(prev).room = id["s1"]
  /\ RoomRows(calendar, id["s1"]) # {}
  /\ en[id["s1"]] = Some(Unwrap(prev).at) /\ de[id["s1"]] = Some(Unwrap(prev).at)
  /\ Unwrap(prev).at < now

\* C5: when either freshness UPDATE fails store rolls back and returns an
\* error without changing the committed store; en and de never differ; and
\* every change of a room's committed rows or timestamps is one commit that
\* sets the room's timestamp in en and in de to that call's sync_start.
C5_NoReplaceWithoutFreshness ==
  [][/\ \A r \in Rooms :
          RoomView(calendar', en', de', r) # RoomView(calendar, en, de, r) =>
            \E s \in Sessions :
              /\ Commits(s) /\ id[s] = r
              /\ en'[r] = Some(sync_start[s]) /\ de'[r] = Some(sync_start[s])
     /\ en = de => en' = de'
     /\ \A s \in Sessions :
          /\ (pc[s] = "update_en" /\ pc'[s] \notin {"update_en", "update_de"}) =>
               pc'[s] = "rollback" /\ db' = db
          /\ (pc[s] = "update_de" /\ pc'[s] \notin {"update_de", "commit"}) =>
               pc'[s] = "rollback" /\ db' = db
          /\ (pc[s] = "rollback" /\ pc'[s] # "rollback") =>
               pc'[s] = "done" /\ res'[s] # "Ok" /\ db' = db]_vars

\* store has returned the error of a failed freshness UPDATE at a later instant
\* than the last commit, and the room still shows that commit's rows and
\* timestamps.
C5_Witness ==
  /\ pc["s1"] = "done" /\ res["s1"] = "update"
  /\ IsSome(prev) /\ Unwrap(prev).room = id["s1"]
  /\ Unwrap(prev).at < sync_start["s1"]
  /\ RoomRows(calendar, id["s1"]) # {}
  /\ en[id["s1"]] = Some(Unwrap(prev).at) /\ de[id["s1"]] = Some(Unwrap(prev).at)

\* C6: with a cached token of which more than 10 s are left,
\* try_unwrap_or_refresh_token makes no exchange, leaves the cache as it is and
\* returns the cached token's secret.
C6_TokenReuse ==
  [][\A s \in Sessions :
       (pc[s] = "token" /\ pc'[s] # "token" /\ FreshEnough(oauth_token[s])) =>
         /\ pc'[s] = "get"
         /\ issued' = issued
         /\ oauth_token'[s] = oauth_token[s]
         /\ bearer'[s] = Unwrap(oauth_token[s]).secret]_vars

\* A token issued before this refresh began, with more than the margin left,
\* has been returned as the bearer.
C6_Witness ==
  /\ pc["s1"] = "get" /\ IsSome(oauth_token["s1"])
  /\ Unwrap(oauth_token["s1"]).issued_at < sync_start["s1"]
  /\ FreshEnough(oauth_token["s1"])
  /\ bearer["s1"] = Unwrap(oauth_token["s1"]).secret

\* C7: with no cached token, or one whose remaining lifetime is unknown or at
\* most 10 s, try_unwrap_or_refresh_token calls the token source: either the
\* fetch fails (a missing credential, a failed exchange) and the error is
\* returned, or exactly one token is issued, it replaces the cached one and its
\* secret is returned.
C7_TokenRefreshBoundary ==
  [][\A s \in Sessions :
       (pc[s] = "token" /\ pc'[s] # "token" /\ ~FreshEnough(oauth_token[s])) =>
         \/ pc'[s] = "done" /\ res'[s] \in {"auth", "config"}
         \/ /\ pc'[s] = "get"
            /\ issued' = issued + 1
            /\ oauth_token'[s] # oauth_token[s]
            /\ Unwrap(oauth_token'[s]).secret = issued'
            /\ bearer'[s] = issued']_vars

\* C8: a token taken from the cache is returned only while more than 10 s of
\* its lifetime are left: one issued at T with lifetime L is not reused at or
\* after T + L - 10.
C8_NoReuseWithinMargin ==
  [][\A s \in Sessions :
       (pc[s] = "token" /\ pc'[s] = "get" /\ oauth_token'[s] = oauth_token[s]
          /\ IsSome(Unwrap(oauth_token[s]).expires_in)) =>
         now < Unwrap(oauth_token[s]).issued_at
                 + Unwrap(Unwrap(oauth_token[s]).expires_in) - Margin]_vars

\* C9: a store called with the arguments of the store that committed last
\* leaves the room's committed rows and its timestamps in en and de as that
\* store left them, in every step up to and including its commit.
C9_Idempotence ==
  [][\A s \in Sessions :
       (pc[s] \in {"delete", "insert", "update_en", "update_de", "commit", "rollback"}
          /\ prev = Some(StoreArgs(s))) =>
         RoomView(calendar', en', de', id[s]) = RoomView(calendar, en, de, id[s])]_vars

\* A second store with the arguments of the last committed one, three events
\* of which one is refused, stands at its commit with a non-empty calendar.
C9_Witness ==
  \E s \in Sessions :
    /\ pc[s] = "commit" /\ prev = Some(StoreArgs(s))
    /\ Len(events[s]) = 3
    /\ RoomRows(calendar, id[s]) = InsertedRows(tx[s], events[s])
    /\ tx[s].deleted = RoomRows(calendar, id[s])
    /\ Cardinality(tx[s].deleted) = 2

\* C10: every event refresh hands to store carries the requested room, and so
\* does every row the transaction inserts, whatever the payload said.
C10_RoomTagging ==
  \A s \in Sessions :
    /\ \A k \in 1..Len(events[s]) : events[s][k].room_code = id[s]
    /\ \A r \in InsertedRows(tx[s], events[s]) : r.room_code = id[s]

\* A row has been inserted for an event whose payload named another room.
C10_Witness ==
  \E s \in Sessions :
    /\ pc[s] = "commit"
    /\ \E k \in 1..Len(events[s]) :
         /\ Master(events[s][k].uid).room_code # id[s]
         /\ Row(events[s][k]) \in InsertedRows(tx[s], events[s])

\* C11: refresh returns an error whenever the calendar GET ends in a transport
\* failure or an undeserializable body (nothing is stored), and whenever the
\* response had a non-success status: such a response never ends in a refresh
\* that returns Ok with its body stored.
C11_FetchFailureIsError ==
  [][\A s \in Sessions :
       /\ (pc[s] = "get" /\ pc'[s] = "done") => (res'[s] = "fetch" /\ db' = db)
       /\ (pc[s] # "done" /\ pc'[s] = "done" /\ http[s] # 0 /\ ~IsSuccess(http[s])) =>
            (res'[s] # "Ok" /\ db' = db)]_vars

\* C12: when a token must be fetched and CONNECTUM_OAUTH_CLIENT_ID or
\* CONNECTUM_OAUTH_CLIENT_SECRET is not set, refresh returns the configuration
\* error at once: no exchange is sent (no token is issued, the error is not the
\* exchange's), no GET follows, no transaction is begun, and the token cache
\* and the committed store are as before.
C12_MissingCredentials ==
  [][\A s \in Sessions :
       (pc[s] = "token" /\ pc'[s] # "token" /\ NeedsRefresh(oauth_token[s])
          /\ env # Credentials) =>
         /\ pc'[s] = "done" /\ res'[s] = "config"
         /\ issued' = issued
         /\ bearer'[s] = 0
         /\ tx'[s] = NoTx
         /\ oauth_token' = oauth_token
         /\ db' = db]_vars

\* refresh has returned the configuration error with one of the two variables
\* set, a cached token that may not be reused, and the room's timestamp of an
\* earlier refresh still in place.
C12_Witness ==
  /\ pc["s1"] = "done" /\ res["s1"] = "config"
  /\ Cardinality(env) = 1
  /\ IsSome(oauth_token["s1"]) /\ NeedsRefresh(oauth_token["s1"])
  /\ IsSome(en[id["s1"]])

\* C13: the timestamp a successful refresh commits for its room is the same in
\* en and in de and is the instant captured when refresh was entered: it is
\* set when the call begins, kept unchanged through the token, the GET and the
\* transaction, and it is not later than the instant of the GET nor than the
\* instant of the commit.
C13_FreshnessIsSyncStart ==
  [][\A s \in Sessions :
       /\ (pc[s] \in {"idle", "done"} /\ pc'[s] = "token") => sync_start'[s] = now
       /\ pc[s] \notin {"idle", "done"} => sync_start'[s] = sync_start[s]
       /\ (pc[s] = "get" /\ pc'[s] = "begin") => sync_start[s] <= now
       /\ Commits(s) =>
            /\ en'[id[s]] = Some(sync_start[s])
            /\ de'[id[s]] = en'[id[s]]
            /\ sync_start[s] <= now]_vars

\* A refresh entered at instant 0 has committed at a later instant: the room's
\* timestamp in en and de is 0, not the instant of the commit.
C13_Witness ==
  /\ pc["s1"] = "done" /\ res["s1"] = "Ok" /\ IsSome(prev)
  /\ Unwrap(prev).room = id["s1"] /\ Unwrap(prev).at = sync_start["s1"]
  /\ sync_start["s1"] < now
  /\ en[id["s1"]] = Some(sync_start["s1"]) /\ de[id["s1"]] = Some(sync_start["s1"])
  /\ RoomRows(calendar, id["s1"]) # {}

\* C14: whatever the interleaving of the transactions on a room, the committed
\* rows of the room after a commit are the rows of that one sync: no row
\* written by another sync is visible beside them.
C14_NoDuplicatedCalendar ==
  [][\A s \in Sessions :
       Commits(s) => RoomRows(calendar', id[s]) \subseteq InsertedRows(tx[s], events[s])]_vars

\* C15: a step of a refresh for one room, whether its transaction commits or
\* rolls back, leaves the committed rows and the timestamps of every other
\* room unchanged; it leaves what the open transactions on other rooms deleted
\* equal to what is committed there, so that the commit of a transaction whose
\* room no other session committed on meanwhile leaves exactly its own rows,
\* as it would running alone, in either order.
C15_RoomIsolation ==
  [][\A s \in Sessions :
       /\ pc'[s] # pc[s] =>
            /\ \A r \in Rooms \ {id'[s]} :
                 RoomView(calendar', en', de', r) = RoomView(calendar, en, de, r)
            /\ \A t \in Sessions \ {s} :
                 (id[t] # id'[s] /\ pc[t] \in {"insert", "update_en", "update_de", "commit"}
                    /\ tx[t].deleted = RoomRows(calendar, id[t])) =>
                   tx[t].deleted = RoomRows(calendar', id[t])
       /\ (Commits(s) /\ tx[s].deleted = RoomRows(calendar, id[s])) =>
            RoomRows(calendar', id[s]) = InsertedRows(tx[s], events[s])
       /\ tx[s].deleted \subseteq RoomRows(tx[s].deleted, id[s])]_vars

\* One session commits on its room, replacing an earlier calendar, while the
\* other holds an open transaction that has deleted and inserted rows of
\* another room whose committed calendar is not empty.
C15_Witness ==
  \E s, t \in Sessions :
    /\ id[s] # id[t]
    /\ pc[s] = "commit" /\ tx[s].deleted # {} /\ InsertedRows(tx[s], events[s]) # tx[s].deleted
    /\ pc[t] = "update_en" /\ tx[t].deleted # {} /\ tx[t].n = 3
    /\ tx[t].deleted = RoomRows(calendar, id[t])

\* The steps of one refresh in the order of the source: the pairs of
\* consecutive positions.
StepOrder ==
  {<<"idle", "token">>, <<"done", "token">>,
   <<"token", "get">>, <<"token", "done">>,
   <<"get", "begin">>, <<"get", "done">>,
   <<"begin", "delete">>, <<"begin", "done">>,
   <<"delete", "insert">>, <<"delete", "rollback">>,
   <<"insert", "update_en">>,
   <<"update_en", "update_de">>, <<"update_en", "rollback">>,
   <<"update_de", "commit">>, <<"update_de", "rollback">>,
   <<"commit", "done">>, <<"rollback", "done">>}

\* The positions at which store holds its transaction.
InStore == {"delete", "insert", "update_en", "update_de", "commit", "rollback"}

\* C16: the steps of one refresh follow one another in the order sync start,
\* token, GET, begin, delete, inserts in batch order, freshness update, commit,
\* each after the one before has succeeded (a failed insert excepted): the GET
\* is sent with a token, a transaction is begun only after a response was
\* deserialized, the inserts run one by one after the delete, the freshness
\* update after the last insert, the commit after both UPDATEs; and a failed
\* fetch leaves the store unchanged with no transaction begun.
C16_StepOrder ==
  [][\A s \in Sessions :
       /\ pc'[s] # pc[s] => <<pc[s], pc'[s]>> \in StepOrder
       /\ pc'[s] = "token" => (sync_start'[s] = now \/ pc[s] = "token")
       /\ pc'[s] = "get" => (bearer'[s] # 0 /\ http'[s] = 0)
       /\ pc'[s] \in {"begin"} \cup InStore =>
            (http'[s] # 0 /\ bearer'[s] # 0 /\ res'[s] = "none")
       /\ (tx'[s].state = "open") <=> (pc'[s] \in InStore)
       /\ (pc'[s] \in InStore /\ tx'[s].n # tx[s].n) =>
            (pc[s] = "insert" /\ tx'[s].n = tx[s].n + 1 /\ tx'[s].n <= Len(events[s]))
       /\ pc'[s] \in {"update_en", "update_de", "commit"} => tx'[s].n = Len(events'[s])
       /\ pc'[s] = "commit" => tx'[s].fresh = {"en", "de"}
       /\ (pc[s] = "get" /\ pc'[s] = "done") =>
            (res'[s] = "fetch" /\ db' = db /\ tx[s] = NoTx)]_vars

\* A refresh that reused a token and fetched three events stands at its commit
\* with all three inserts sent and both UPDATEs executed.
C16_Witness ==
  /\ pc["s1"] = "commit" /\ tx["s1"].n = 3 /\ Len(events["s1"]) = 3
  /\ tx["s1"].fresh = {"en", "de"} /\ tx["s1"].deleted # {}
  /\ IsSome(oauth_token["s1"]) /\ Unwrap(oauth_token["s1"]).issued_at < sync_start["s1"]

\* The errors refresh returns, by the position whose failure they report.
Failure ==
  [token |-> {"auth", "config"}, get |-> {"fetch"}, begin |-> {"begin"},
   commit |-> {"commit"}, rollback |-> {"delete", "update", "rollback"}]

\* C17: within one refresh the token step, the GET and the begin of the
\* transaction are each taken once and never returned to, so at most one
\* token is issued, one GET sent and one transaction begun; and a failure is
\* returned in the step in which it occurs: the refresh is over, nothing was
\* issued, fetched or begun again, and the committed store is unchanged.
C17_NoRetry ==
  [][\A s \in Sessions :
       /\ pc'[s] = "token" => pc[s] \in {"idle", "done", "token"}
       /\ pc'[s] = "get" => pc[s] \in {"token", "get"}
       /\ pc'[s] = "begin" => pc[s] \in {"get", "begin"}
       /\ pc'[s] = "delete" => pc[s] \in {"begin", "delete"}
       /\ (pc[s] = "token" /\ pc'[s] # "token") => issued' \in {issued, issued + 1}
       /\ pc[s] # "token" => issued' = issued \/ \E t \in Sessions \ {s} : pc[t] = "token"
       /\ (pc[s] \notin {"idle", "done"} /\ res'[s] # res[s]) =>
            /\ pc'[s] = "done"
            /\ IF pc[s] = "commit" THEN res'[s] \in {"Ok"} \cup Failure[pc[s]]
                                   ELSE res'[s] \in Failure[pc[s]]
            /\ res'[s] # "Ok" => (db' = db /\ issued' = issued /\ oauth_token' = oauth_token)
       /\ (tx'[s].cause # tx[s].cause /\ tx'[s].cause # "none") => pc'[s] = "rollback"]_vars

\* A refresh at the last instant, with the one token issued before it, has
\* returned the error of its commit; the calendar of an earlier refresh is
\* still the one shown.
C17_Witness ==
  /\ pc["s1"] = "done" /\ res["s1"] = "commit"
  /\ issued = 1 /\ IsSome(oauth_token["s1"])
  /\ Unwrap(oauth_token["s1"]).issued_at < sync_start["s1"]
  /\ sync_start["s1"] = MaxTime
  /\ IsSome(prev) /\ Unwrap(prev).at < sync_start["s1"]
  /\ RoomRows(calendar, id["s1"]) # {}

\* C18: when the fetch of a new token fails, try_unwrap_or_refresh_token
\* returns the error with the cache exactly as it was (empty stays empty, a
\* token that may not be reused stays cached), no token is handed to the
\* caller, and the cache still asks for an exchange: the next call leaves the
\* token step only with a newly issued token or with an error again.
C18_FailedExchangeKeepsCache ==
  [][\A s \in Sessions :
       /\ (pc[s] = "token" /\ pc'[s] = "done") =>
            /\ res'[s] \in {"auth", "config"}
            /\ oauth_token'[s] = oauth_token[s]
            /\ NeedsRefresh(oauth_token'[s])
            /\ bearer'[s] = 0
            /\ issued' = issued
       /\ (res[s] \in {"auth", "config"} /\ pc'[s] = "token") =>
            (oauth_token'[s] = oauth_token[s] /\ NeedsRefresh(oauth_token'[s]))
       /\ (pc[s] = "token" /\ pc'[s] = "get" /\ NeedsRefresh(oauth_token[s])) =>
            /\ issued' = issued + 1
            /\ Unwrap(oauth_token'[s]).secret = issued'
            /\ bearer'[s] = issued']_vars

\* An exchange has failed with a token of unknown lifetime in the cache, which
\* is still there; the credentials are set.
C18_Witness ==
  /\ pc["s1"] = "done" /\ res["s1"] = "auth" /\ env = Credentials
  /\ IsSome(oauth_token["s1"])
  /\ Unwrap(oauth_token["s1"]).expires_in = None
  /\ bearer["s1"] = 0

====
